---- MODULE Spec2Model ----
(***************************************************************************)
(* Smart Task Analyzer: the business-day arithmetic, the dependency-cycle  *)
(* detector and the analysis pipeline of tasks/scoring.py and              *)
(* tasks/views.py, as state machines.                                      *)
(*                                                                         *)
(*   SpecDate    count_business_days and the two date-driven scores        *)
(*   SpecCycle   detect_circular_dependencies, one DFS step per action     *)
(*   SpecAnalyze the analyze and suggest endpoints on a batch of tasks     *)
(*   SpecValidate the same endpoints on bodies that may fail validation    *)
(*   SpecScore   SmartBalanceScorer on the tasks of one batch              *)
(*   SpecStrategy get_scorer and the calls of the scorer it returns        *)
(***************************************************************************)
EXTENDS Integers, Sequences, FiniteSets, TLC

\* ------------------------------------------------------------------ bounds
\* dates range over Day0 .. Day0 + MaxSpan
MaxSpan == 44
\* a batch handed to the cycle detector has at most MaxTasks tasks
MaxTasks == 2
\* task ids and dependency ids range over 0 .. MaxId
MaxId == 2
\* a dependency list has at most MaxDeps entries
MaxDeps == 1
\* a request to the analyze endpoint carries at most MaxBatch tasks
MaxBatch == 4

\* ------------------------------------------------------- program constants
\* Python's None (an absent id, an absent due date, a result not yet computed)
None == -1
\* date(2025, 11, 24).toordinal(), a Monday
Day0 == 739579

VARIABLES
    \* count_business_days
    start_date, end_date, days_fwd, days_bwd,
    \* the date-driven scores of one task
    today, due_date, urgency, deadline, dpc,
    \* detect_circular_dependencies
    tasks, graph, keys, key_ix, visited, rec_stack, path, cycles, frames, pc,
    \* analyze_tasks: the request, date.today(), the response
    req_tasks, run_date, resp, apc,
    \* the strategy and weights of the request, and suggest_tasks' response
    strategy_name, custom_weights, suggestions, spc,
    \* SmartBalanceScorer.calculate_score called on the tasks of one batch
    profile, batch, all_tasks_arg, weights_arg, scores, default_scores, bpc,
    \* get_scorer: the name passed, the scorer returned, the calls of its
    \* calculate_score and what they returned
    strategy_arg, scorer_obj, calls_made, call_results

dateVars == <<start_date, end_date, days_fwd, days_bwd,
              today, due_date, urgency, deadline, dpc>>
cycleVars == <<tasks, graph, keys, key_ix, visited, rec_stack, path, cycles,
               frames, pc>>
analyzeVars == <<req_tasks, run_date, resp, apc,
                 strategy_name, custom_weights, suggestions, spc>>
scoreVars == <<profile, batch, all_tasks_arg, weights_arg, scores,
               default_scores, bpc>>
factoryVars == <<strategy_arg, scorer_obj, calls_made, call_results>>
vars == <<dateVars, cycleVars, analyzeVars, scoreVars, factoryVars>>

\* ------------------------------------------------------------ date helpers
Dates == Day0 .. (Day0 + MaxSpan)

\* date.weekday(): 0 = Monday .. 6 = Sunday; ordinal 1 (0001-01-01) is a Monday
weekday(d) == (d + 6) % 7

abs(n) == IF n < 0 THEN -n ELSE n

Range(s) == {s[i] : i \in 1..Len(s)}

\* the while loop of count_business_days: current runs over the days
\* current .. end-1 and business_days grows by one for each of them that is
\* a weekday; the loop's result is written as the count of those days, so
\* that a due date decades away is counted like one a week away
walk_days(current, end, business_days) ==
    business_days
        + Cardinality({day \in current .. (end - 1) : weekday(day) < 5})

\* the overdue branch without its minus sign
count_business_days_unsigned(start, end) ==
    IF start = end THEN 0
    ELSE IF start > end THEN walk_days(end, start, 0)
    ELSE walk_days(start, end, 0)

\* start > end: -count_business_days(end, start), which takes the loop branch
count_business_days(start, end) ==
    IF start = end THEN 0
    ELSE IF start > end THEN -walk_days(end, start, 0)
    ELSE walk_days(start, end, 0)

\* the urgency ladder over calendar days
calculate_urgency_calendar(due, now) ==
    IF due = None THEN <<0, <<"No due date set">>>>
    ELSE LET days_until_due == due - now IN
         IF days_until_due < 0
            THEN <<100, <<"OVERDUE by", abs(days_until_due)>>>>
         ELSE IF days_until_due = 0 THEN <<90, <<"Due TODAY">>>>
         ELSE IF days_until_due = 1 THEN <<80, <<"Due tomorrow">>>>
         ELSE IF days_until_due <= 3 THEN <<50, <<"Due in", days_until_due>>>>
         ELSE IF days_until_due <= 5 THEN <<30, <<"Due in", days_until_due>>>>
         ELSE IF days_until_due <= 10 THEN <<15, <<"Due within 2 weeks">>>>
         ELSE <<5, <<"Due date is distant">>>>

\* SmartBalanceScorer._calculate_urgency: <<score, explanation>>
calculate_urgency(due, now) ==
    IF due = None THEN <<0, <<"No due date set">>>>
    ELSE LET days_until_due == count_business_days(now, due) IN
         IF days_until_due < 0
            THEN <<100, <<"OVERDUE by", abs(days_until_due)>>>>
         ELSE IF days_until_due = 0 THEN <<90, <<"Due TODAY">>>>
         ELSE IF days_until_due = 1 THEN <<80, <<"Due tomorrow">>>>
         ELSE IF days_until_due <= 3 THEN <<50, <<"Due in", days_until_due>>>>
         ELSE IF days_until_due <= 5 THEN <<30, <<"Due in", days_until_due>>>>
         ELSE IF days_until_due <= 10 THEN <<15, <<"Due within 2 weeks">>>>
         ELSE <<5, <<"Due date is distant">>>>

max(a, b) == IF a >= b THEN a ELSE b
min(a, b) == IF a <= b THEN a ELSE b

\* the deadline ladder without the max(0, ...) of its last step
deadline_score_unclamped(due, now) ==
    IF due = None THEN <<0, <<"No due date">>>>
    ELSE LET days_until_due == count_business_days(now, due) IN
         IF days_until_due < 0
            THEN <<150 + abs(days_until_due),
                   <<"Overdue by", abs(days_until_due)>>>>
         ELSE IF days_until_due = 0 THEN <<120, <<"Due today">>>>
         ELSE IF days_until_due <= 5
            THEN <<100 - (days_until_due * 10), <<"Due in", days_until_due>>>>
         ELSE <<30 - days_until_due, <<"Due in", days_until_due>>>>

\* a deadline score that shrinks with the days overdue
deadline_score_fading(due, now) ==
    IF due = None THEN <<0, <<"No due date">>>>
    ELSE LET days_until_due == count_business_days(now, due) IN
         IF days_until_due < 0
            THEN <<150 - abs(days_until_due),
                   <<"Overdue by", abs(days_until_due)>>>>
         ELSE IF days_until_due = 0 THEN <<120, <<"Due today">>>>
         ELSE IF days_until_due <= 5
            THEN <<100 - (days_until_due * 10), <<"Due in", days_until_due>>>>
         ELSE <<max(0, 30 - days_until_due), <<"Due in", days_until_due>>>>

\* DeadlineDrivenScorer.calculate_score: <<score, explanation>>
deadline_score(due, now) ==
    IF due = None THEN <<0, <<"No due date">>>>
    ELSE LET days_until_due == count_business_days(now, due) IN
         IF days_until_due < 0
            THEN <<150 + abs(days_until_due),
                   <<"Overdue by", abs(days_until_due)>>>>
         ELSE IF days_until_due = 0 THEN <<120, <<"Due today">>>>
         ELSE IF days_until_due <= 5
            THEN <<100 - (days_until_due * 10), <<"Due in", days_until_due>>>>
         ELSE <<max(0, 30 - days_until_due), <<"Due in", days_until_due>>>>

\* --------------------------------------------------------- scoring helpers
\* weights travel as [present, map]: present = FALSE is Python's None, map is
\* the dict, its values in hundredths (0.40 is 40)
NoWeights == [present |-> FALSE, map |-> <<>>]

WeightKeys == {"urgency", "importance", "effort", "dependencies"}

\* the four factors weighted alike
EVEN_WEIGHTS ==
    [urgency |-> 25, importance |-> 25, effort |-> 25, dependencies |-> 25]

\* SmartBalanceScorer.DEFAULT_WEIGHTS
DEFAULT_WEIGHTS ==
    [urgency |-> 40, importance |-> 30, effort |-> 20, dependencies |-> 10]

RECURSIVE sum_values(_, _)
sum_values(f, ks) ==
    IF ks = {} THEN 0
    ELSE LET k == CHOOSE x \in ks : TRUE IN f[k] + sum_values(f, ks \ {k})

\* truthiness of the weights argument: None and the empty dict are falsy
weights_truthy(weights) == weights.present /\ DOMAIN weights.map # {}

\* w = weights if weights else DEFAULT_WEIGHTS, without the sum check
effective_weights_unchecked(weights) ==
    IF ~weights_truthy(weights) THEN DEFAULT_WEIGHTS ELSE weights.map

\* w = weights if weights else DEFAULT_WEIGHTS, then the sum check; the sums
\* are in hundredths, and a sum exactly 0.01 off 1.0, which the float
\* comparison decides by its rounding, is not among the weights the
\* specifications supply
effective_weights(weights) ==
    IF ~weights_truthy(weights) THEN DEFAULT_WEIGHTS
    ELSE IF abs(sum_values(weights.map, DOMAIN weights.map) - 100) > 1
         THEN DEFAULT_WEIGHTS
         ELSE weights.map

\* SmartBalanceScorer._calculate_importance
calculate_importance(task) ==
    LET importance == max(1, min(10, task.importance)) IN
    IF importance >= 8 THEN <<importance * 10, <<"High importance", importance>>>>
    ELSE IF importance >= 5
         THEN <<importance * 10, <<"Medium importance", importance>>>>
    ELSE <<importance * 10, <<"Low importance", importance>>>>

\* SmartBalanceScorer._calculate_effort
calculate_effort(task) ==
    LET hours == max(1, task.estimated_hours) IN
    IF hours < 2 THEN <<20, <<"Quick win", hours>>>>
    ELSE IF hours <= 4 THEN <<10, <<"Moderate effort", hours>>>>
    ELSE IF hours <= 8 THEN <<0, <<"Standard task", hours>>>>
    ELSE <<-10, <<"Large task", hours>>>>

\* SmartBalanceScorer._calculate_dependencies; <<>> is the empty explanation
calculate_dependencies(task, all_tasks) ==
    LET blockers_count ==
            Cardinality({i \in 1..Len(all_tasks) :
                            task.id \in Range(all_tasks[i].dependencies)})
    IN IF blockers_count > 0
       THEN <<blockers_count * 15, <<"Blocks", blockers_count>>>>
       ELSE IF task.dependencies # <<>>
            THEN <<-20, <<"Waiting on", Len(task.dependencies)>>>>
       ELSE <<0, <<>>>>

\* a scorer's outcome: raised = TRUE stands for an exception leaving
\* calculate_score; score is in hundredths (53.0 is 5300)
Raised == [raised |-> TRUE, score |-> 0, explanation |-> <<>>]
Scored(score100, explanation) ==
    [raised |-> FALSE, score |-> score100, explanation |-> explanation]

\* SmartBalanceScorer.calculate_score; w[key] on a dict without the key
\* raises KeyError; `if all_tasks:` skips the dependency factor on an empty
\* batch; round(score, 2) keeps the hundredths
smart_balance_score(task, all_tasks, weights, now) ==
    LET w == effective_weights(weights)
        u == calculate_urgency(task.due_date, now)
        i == calculate_importance(task)
        e == calculate_effort(task)
        d == calculate_dependencies(task, all_tasks)
        base == <<u[2], i[2], e[2]>>
    IN IF ~({"urgency", "importance", "effort"} \subseteq DOMAIN w) THEN Raised
       ELSE IF all_tasks = <<>>
            THEN Scored(u[1] * w.urgency + i[1] * w.importance
                            + e[1] * w.effort, base)
       ELSE IF "dependencies" \notin DOMAIN w THEN Raised
       ELSE Scored(u[1] * w.urgency + i[1] * w.importance + e[1] * w.effort
                       + d[1] * w.dependencies,
                   IF d[2] # <<>> THEN Append(base, d[2]) ELSE base)

\* a quick-win scorer that looks its weight up, as SmartBalance does
fastest_wins_score_weighted(task, all_tasks, weights, now) ==
    LET hours == max(1, task.estimated_hours) IN
    IF weights.present /\ "effort" \notin DOMAIN weights.map THEN Raised
    ELSE Scored(100 * max(0, 100 - (hours * 5)),
                <<<<"Quick task strategy", hours>>>>)

\* FastestWinsScorer.calculate_score
fastest_wins_score(task, all_tasks, weights, now) ==
    LET hours == max(1, task.estimated_hours) IN
    Scored(100 * max(0, 100 - (hours * 5)), <<<<"Quick task strategy", hours>>>>)

\* HighImpactScorer.calculate_score
high_impact_score(task, all_tasks, weights, now) ==
    LET importance == max(1, min(10, task.importance)) IN
    Scored(100 * (importance * 10), <<<<"High impact strategy", importance>>>>)

\* DeadlineDrivenScorer.calculate_score
deadline_driven_score(task, all_tasks, weights, now) ==
    LET r == deadline_score(task.due_date, now) IN
    Scored(100 * r[1], <<r[2]>>)

Strategies == {"smart_balance", "fastest_wins", "high_impact", "deadline_driven"}

\* a factory whose fallback is the last strategy of the table
get_scorer_last(strategy) ==
    IF strategy = "smart_balance" THEN "SmartBalanceScorer"
    ELSE IF strategy = "fastest_wins" THEN "FastestWinsScorer"
    ELSE IF strategy = "high_impact" THEN "HighImpactScorer"
    ELSE "DeadlineDrivenScorer"

\* get_scorer: strategies.get(strategy, SmartBalanceScorer()); the scorer is
\* named by its class
get_scorer(strategy) ==
    IF strategy = "smart_balance" THEN "SmartBalanceScorer"
    ELSE IF strategy = "fastest_wins" THEN "FastestWinsScorer"
    ELSE IF strategy = "high_impact" THEN "HighImpactScorer"
    ELSE IF strategy = "deadline_driven" THEN "DeadlineDrivenScorer"
    ELSE "SmartBalanceScorer"

\* scorer.calculate_score(task, all_tasks, weights): the method of the
\* scorer's class
score_with(scorer, task, all_tasks, weights, now) ==
    IF scorer = "FastestWinsScorer"
        THEN fastest_wins_score(task, all_tasks, weights, now)
    ELSE IF scorer = "HighImpactScorer"
        THEN high_impact_score(task, all_tasks, weights, now)
    ELSE IF scorer = "DeadlineDrivenScorer"
        THEN deadline_driven_score(task, all_tasks, weights, now)
    ELSE smart_balance_score(task, all_tasks, weights, now)

\* get_scorer(strategy).calculate_score(task, all_tasks, weights)
calculate_score(strategy, task, all_tasks, weights, now) ==
    score_with(get_scorer(strategy), task, all_tasks, weights, now)

\* ----------------------------------------------------------- cycle helpers
Ids == 0 .. MaxId

SeqsUpTo(S, n) == UNION {[1..k -> S] : k \in 0..n}

TaskSet == [id : Ids \cup {None}, dependencies : SeqsUpTo(Ids, MaxDeps)]

\* Python truthiness of task.get('id'): None and 0 are both falsy
truthy(x) == x # None /\ x # 0

\* the keys of the adjacency dict in insertion order
RECURSIVE graph_keys(_, _, _)
graph_keys(ts, i, acc) ==
    IF i > Len(ts) THEN acc
    ELSE graph_keys(ts, i + 1,
                    IF truthy(ts[i].id) /\ ts[i].id \notin Range(acc)
                    THEN Append(acc, ts[i].id) ELSE acc)

\* index of the last task with id k: a later graph[task_id] = ... overwrites
last_with_id(ts, k) ==
    CHOOSE i \in 1..Len(ts) :
        /\ ts[i].id = k
        /\ \A j \in (i+1)..Len(ts) : ts[j].id # k

build_graph(ts) ==
    [k \in {ts[i].id : i \in {j \in 1..Len(ts) : truthy(ts[j].id)}}
        |-> ts[last_with_id(ts, k)].dependencies]

\* graph.get(node, [])
graph_get_self(g, node) == IF node \in DOMAIN g THEN g[node] ELSE <<node>>
graph_get(g, node) == IF node \in DOMAIN g THEN g[node] ELSE <<>>

\* path.index(x): position of the first occurrence, 0 standing for ValueError
path_index(p, x) ==
    IF x \in Range(p)
    THEN CHOOSE i \in 1..Len(p) : p[i] = x /\ \A j \in 1..(i-1) : p[j] # x
    ELSE 0

\* path[cycle_start:] + [neighbor]
cycle_of_open(p, neighbor) == SubSeq(p, path_index(p, neighbor), Len(p))
cycle_of(p, neighbor) ==
    Append(SubSeq(p, path_index(p, neighbor), Len(p)), neighbor)

\* ---------------------------------------------------------------- SpecDate
DateIdle ==
    /\ start_date = Day0 /\ end_date = Day0
    /\ days_fwd = <<>> /\ days_bwd = <<>>
    /\ today = Day0 /\ due_date = None
    /\ urgency = <<>> /\ deadline = <<>> /\ dpc = "idle"

CycleIdle ==
    /\ tasks = <<>> /\ graph = <<>> /\ keys = <<>> /\ key_ix = 0
    /\ visited = {} /\ rec_stack = {} /\ path = <<>> /\ cycles = <<>>
    /\ frames = <<>> /\ pc = "idle"

AnalyzeIdle ==
    /\ req_tasks = <<>> /\ run_date = Day0 /\ resp = <<>> /\ apc = "idle"
    /\ strategy_name = "smart_balance" /\ custom_weights = NoWeights
    /\ suggestions = <<>> /\ spc = "idle"

ScoreIdle ==
    /\ profile = <<>> /\ batch = <<>> /\ all_tasks_arg = <<>>
    /\ weights_arg = NoWeights /\ scores = <<>> /\ default_scores = <<>>
    /\ bpc = "idle"

FactoryIdle ==
    /\ strategy_arg = "smart_balance" /\ scorer_obj = "none"
    /\ calls_made = <<>> /\ call_results = <<>>

InitDate ==
    /\ start_date \in Dates /\ end_date \in Dates
    /\ days_fwd = <<>> /\ days_bwd = <<>>
    /\ today = start_date /\ due_date = None
    /\ urgency = <<>> /\ deadline = <<>> /\ dpc = "call"
    /\ CycleIdle /\ AnalyzeIdle /\ ScoreIdle /\ FactoryIdle

\* count_business_days(start_date, end_date)
CountForward ==
    /\ dpc = "call" /\ days_fwd = <<>>
    /\ days_fwd' = <<count_business_days(start_date, end_date)>>
    /\ UNCHANGED <<start_date, end_date, days_bwd, today, due_date, urgency,
                   deadline, dpc>>
    /\ UNCHANGED <<cycleVars, analyzeVars, scoreVars, factoryVars>>

\* count_business_days(end_date, start_date)
CountBackward ==
    /\ dpc = "call" /\ days_bwd = <<>>
    /\ days_bwd' = <<count_business_days(end_date, start_date)>>
    /\ UNCHANGED <<start_date, end_date, days_fwd, today, due_date, urgency,
                   deadline, dpc>>
    /\ UNCHANGED <<cycleVars, analyzeVars, scoreVars, factoryVars>>

\* the two date-driven scorers on a task due at end_date (or with no due
\* date), evaluated on today = start_date
ScoreDue ==
    /\ dpc = "call"
    /\ \E due \in {end_date, None} :
        /\ due_date' = due
        /\ urgency' = calculate_urgency(due, today)
        /\ deadline' = deadline_score(due, today)
    /\ dpc' = "scored"
    /\ UNCHANGED <<start_date, end_date, days_fwd, days_bwd, today>>
    /\ UNCHANGED <<cycleVars, analyzeVars, scoreVars, factoryVars>>

\* the task's due date is moved to a later day and the same calls are made
\* again, on the same today
Postpone ==
    /\ dpc \in {"scored", "rescored"} /\ due_date # None
    /\ \E later \in Dates :
        /\ later > end_date
        /\ end_date' = later
        /\ due_date' = later
        /\ days_fwd' = IF days_fwd = <<>> THEN <<>>
                       ELSE <<count_business_days(start_date, later)>>
        /\ days_bwd' = IF days_bwd = <<>> THEN <<>>
                       ELSE <<count_business_days(later, start_date)>>
        /\ urgency' = calculate_urgency(later, today)
        /\ deadline' = deadline_score(later, today)
    /\ dpc' = "rescored"
    /\ UNCHANGED <<start_date, today>>
    /\ UNCHANGED <<cycleVars, analyzeVars, scoreVars, factoryVars>>

NextDate == CountForward \/ CountBackward \/ ScoreDue \/ Postpone

SpecDate == InitDate /\ [][NextDate]_vars

\* --------------------------------------------------------------- SpecCycle
InitCycle ==
    /\ tasks = <<>>
    /\ graph = <<>> /\ keys = <<>> /\ key_ix = 0
    /\ visited = {} /\ rec_stack = {} /\ path = <<>> /\ cycles = <<>>
    /\ frames = <<>> /\ pc = "build"
    /\ DateIdle /\ AnalyzeIdle /\ ScoreIdle /\ FactoryIdle

\* the caller assembles the batch, one task dict at a time
AddTask ==
    /\ pc = "build" /\ Len(tasks) < MaxTasks
    /\ \E t \in TaskSet : tasks' = Append(tasks, t)
    /\ UNCHANGED <<graph, keys, key_ix, visited, rec_stack, path, cycles,
                   frames, pc>>
    /\ UNCHANGED <<dateVars, analyzeVars, scoreVars, factoryVars>>

\* cycles, visited, rec_stack = [], set(), set(); build the adjacency dict
BuildGraph ==
    /\ pc = "build"
    /\ graph' = build_graph(tasks)
    /\ keys' = graph_keys(tasks, 1, <<>>)
    /\ key_ix' = 1
    /\ pc' = "loop"
    /\ UNCHANGED <<tasks, visited, rec_stack, path, cycles, frames>>
    /\ UNCHANGED <<dateVars, analyzeVars, scoreVars, factoryVars>>

\* for task_id in graph: exhausted, return cycles
LoopDone ==
    /\ pc = "loop" /\ key_ix > Len(keys)
    /\ pc' = "done"
    /\ UNCHANGED <<tasks, graph, keys, key_ix, visited, rec_stack, path,
                   cycles, frames>>
    /\ UNCHANGED <<dateVars, analyzeVars, scoreVars, factoryVars>>

\* for task_id in graph: task_id already visited
LoopSkip ==
    /\ pc = "loop" /\ key_ix <= Len(keys)
    /\ keys[key_ix] \in visited
    /\ key_ix' = key_ix + 1
    /\ UNCHANGED <<tasks, graph, keys, visited, rec_stack, path, cycles,
                   frames, pc>>
    /\ UNCHANGED <<dateVars, analyzeVars, scoreVars, factoryVars>>

\* an entry of dfs that leaves the node unmarked
dfs_enter_unmarked(node, p) ==
    /\ visited' = visited
    /\ rec_stack' = rec_stack \cup {node}
    /\ path' = Append(p, node)
    /\ frames' = Append(frames, [node |-> node, ix |-> 1])

\* the entry of dfs(node, path): visited.add, rec_stack.add, path.append
dfs_enter(node, p) ==
    /\ visited' = visited \cup {node}
    /\ rec_stack' = rec_stack \cup {node}
    /\ path' = Append(p, node)
    /\ frames' = Append(frames, [node |-> node, ix |-> 1])

\* for task_id in graph: dfs(task_id, []) on a fresh path
LoopCall ==
    /\ pc = "loop" /\ key_ix <= Len(keys)
    /\ keys[key_ix] \notin visited
    /\ dfs_enter(keys[key_ix], <<>>)
    /\ pc' = "dfs"
    /\ UNCHANGED <<tasks, graph, keys, key_ix, cycles>>
    /\ UNCHANGED <<dateVars, analyzeVars, scoreVars, factoryVars>>

top == frames[Len(frames)]
neighbors == graph_get(graph, top.node)
neighbor == neighbors[top.ix]

\* if neighbor not in visited: dfs(neighbor, path)
DfsDescend ==
    /\ pc = "dfs" /\ top.ix <= Len(neighbors)
    /\ neighbor \notin visited
    /\ dfs_enter(neighbor, path)
    /\ UNCHANGED <<tasks, graph, keys, key_ix, cycles, pc>>
    /\ UNCHANGED <<dateVars, analyzeVars, scoreVars, factoryVars>>

\* elif neighbor in rec_stack: record the cycle; return True unwinds every
\* frame of this traversal, none of which pops path or rec_stack
DfsCycle ==
    /\ pc = "dfs" /\ top.ix <= Len(neighbors)
    /\ neighbor \in visited /\ neighbor \in rec_stack
    /\ path_index(path, neighbor) # 0
    /\ cycles' = Append(cycles, cycle_of(path, neighbor))
    /\ frames' = <<>>
    /\ key_ix' = key_ix + 1
    /\ pc' = "loop"
    /\ UNCHANGED <<tasks, graph, keys, visited, rec_stack, path>>
    /\ UNCHANGED <<dateVars, analyzeVars, scoreVars, factoryVars>>

\* elif neighbor in rec_stack: path.index(neighbor) raises ValueError, which
\* nothing catches
DfsValueError ==
    /\ pc = "dfs" /\ top.ix <= Len(neighbors)
    /\ neighbor \in visited /\ neighbor \in rec_stack
    /\ path_index(path, neighbor) = 0
    /\ pc' = "error"
    /\ UNCHANGED <<tasks, graph, keys, key_ix, visited, rec_stack, path,
                   cycles, frames>>
    /\ UNCHANGED <<dateVars, analyzeVars, scoreVars, factoryVars>>

\* neighbor visited and off the recursion stack: next neighbor
DfsSkip ==
    /\ pc = "dfs" /\ top.ix <= Len(neighbors)
    /\ neighbor \in visited /\ neighbor \notin rec_stack
    /\ frames' = [frames EXCEPT ![Len(frames)].ix = @ + 1]
    /\ UNCHANGED <<tasks, graph, keys, key_ix, visited, rec_stack, path,
                   cycles, pc>>
    /\ UNCHANGED <<dateVars, analyzeVars, scoreVars, factoryVars>>

\* the frames left once the top frame has returned False: the caller's
\* `if dfs(neighbor, path)` fails and its loop moves to the next neighbor
frames_after_return(fs) ==
    LET rest == SubSeq(fs, 1, Len(fs) - 1) IN
    IF rest = <<>> THEN rest
    ELSE [rest EXCEPT ![Len(rest)].ix = @ + 1]

\* rec_stack.remove(node)
rec_stack_keep(rs, node) == rs
rec_stack_remove(rs, node) == rs \ {node}

\* neighbours exhausted: path.pop(), rec_stack.remove(node), return False
DfsReturn ==
    /\ pc = "dfs" /\ top.ix > Len(neighbors)
    /\ path' = SubSeq(path, 1, Len(path) - 1)
    /\ rec_stack' = rec_stack_remove(rec_stack, top.node)
    /\ frames' = frames_after_return(frames)
    /\ IF Len(frames) = 1
       THEN pc' = "loop" /\ key_ix' = key_ix + 1
       ELSE pc' = pc /\ key_ix' = key_ix
    /\ UNCHANGED <<tasks, graph, keys, visited, cycles>>
    /\ UNCHANGED <<dateVars, analyzeVars, scoreVars, factoryVars>>

NextCycle ==
    \/ AddTask
    \/ BuildGraph
    \/ LoopDone
    \/ LoopSkip
    \/ LoopCall
    \/ DfsDescend
    \/ DfsCycle
    \/ DfsValueError
    \/ DfsSkip
    \/ DfsReturn

SpecCycle == InitCycle /\ [][NextCycle]_vars

\* ------------------------------------------------------------- SpecAnalyze
\* a serializer that asks for the due date only
valid_task_lenient(t) == t.due_date # None

\* TaskSerializer: the fields a task must carry (title, due_date,
\* estimated_hours, importance; None stands for a field the body leaves out)
\* and their ranges
valid_task(t) ==
    /\ t.title # None
    /\ t.due_date # None
    /\ t.estimated_hours # None /\ t.estimated_hours >= 1
    /\ t.importance # None /\ t.importance >= 1 /\ t.importance <= 10

\* TaskAnalysisRequestSerializer.validate_weights
valid_weights(weights) ==
    \/ ~weights.present
    \/ /\ DOMAIN weights.map = WeightKeys
       /\ abs(sum_values(weights.map, WeightKeys) - 100) <= 1

\* task_dict['id'] = i + 1 where the id is missing
assign_ids(ts) ==
    [i \in 1..Len(ts) |->
        IF ts[i].id = None THEN [ts[i] EXCEPT !.id = i] ELSE ts[i]]

\* the tiers with strict comparisons
priority_level_strict(score100) ==
    IF score100 > 7000 THEN "HIGH"
    ELSE IF score100 > 3000 THEN "MEDIUM"
    ELSE "LOW"

\* the tier of a score given in hundredths: >= 70 HIGH, >= 30 MEDIUM, else LOW
priority_level(score100) ==
    IF score100 >= 7000 THEN "HIGH"
    ELSE IF score100 >= 3000 THEN "MEDIUM"
    ELSE "LOW"

\* the scored task without the dependencies of task_dict
scored_task_detached(t, r) ==
    [id |-> t.id, title |-> t.title, due_date |-> t.due_date,
     estimated_hours |-> t.estimated_hours, importance |-> t.importance,
     dependencies |-> <<>>,
     score |-> r.score, explanation |-> r.explanation,
     priority_level |-> priority_level(r.score)]

\* {**task_dict, 'score': ..., 'explanation': ..., 'priority_level': ...}
scored_task(t, r) ==
    [id |-> t.id, title |-> t.title, due_date |-> t.due_date,
     estimated_hours |-> t.estimated_hours, importance |-> t.importance,
     dependencies |-> t.dependencies,
     score |-> r.score, explanation |-> r.explanation,
     priority_level |-> priority_level(r.score)]

\* where list.sort(key=score, reverse=True) puts x among the already ordered
\* s: behind every element whose score is at least x's (the sort is stable)
insert_before_equal(s, x) ==
    LET k == Cardinality({i \in 1..Len(s) : s[i].score > x.score}) IN
    SubSeq(s, 1, k) \o <<x>> \o SubSeq(s, k + 1, Len(s))
insert_by_score(s, x) ==
    LET k == Cardinality({i \in 1..Len(s) : s[i].score >= x.score}) IN
    SubSeq(s, 1, k) \o <<x>> \o SubSeq(s, k + 1, Len(s))

\* scored_tasks.sort(key=lambda x: x['score'], reverse=True)
RECURSIVE sort_by_score(_, _, _)
sort_by_score(ts, i, acc) ==
    IF i > Len(ts) THEN acc
    ELSE sort_by_score(ts, i + 1, insert_by_score(acc, ts[i]))

\* analyze_tasks: 400 on invalid request data, 500 when a scorer raises,
\* else the scored tasks in descending score order
analyze_tasks(ts, strategy, weights, today_) ==
    IF ~(valid_weights(weights) /\ \A i \in 1..Len(ts) : valid_task(ts[i]))
    THEN [status |-> 400, tasks |-> <<>>, strategy_used |-> strategy,
          total_tasks |-> 0, custom_weights_applied |-> FALSE]
    ELSE LET task_dicts == assign_ids(ts)
             results == [i \in 1..Len(ts) |->
                            calculate_score(strategy, task_dicts[i], task_dicts,
                                            weights, today_)]
             scored_tasks == [i \in 1..Len(ts) |->
                                 scored_task(task_dicts[i], results[i])]
         IN IF \E i \in 1..Len(ts) : results[i].raised
            THEN [status |-> 500, tasks |-> <<>>, strategy_used |-> strategy,
                  total_tasks |-> 0, custom_weights_applied |-> FALSE]
            ELSE [status |-> 200,
                  tasks |-> sort_by_score(scored_tasks, 1, <<>>),
                  strategy_used |-> strategy,
                  total_tasks |-> Len(scored_tasks),
                  custom_weights_applied |-> weights.present]

\* _generate_detailed_reason: the priority line, the factors, the
\* recommendation of the rank, joined by " | "
generate_detailed_reason(task, rank) ==
    << <<task.priority_level, rank, task.score>>,
       <<"Factors", task.explanation>>,
       IF rank = 1 THEN "Start with this task immediately"
       ELSE IF rank = 2 THEN "Work on this after completing the top task"
       ELSE "Plan to complete this task today if possible" >>

\* scored_tasks[:3]
TopN == 3

take_all(s) == s
take_top(s) == SubSeq(s, 1, min(TopN, Len(s)))

\* suggest_tasks: the pipeline of analyze_tasks written out a second time,
\* then the first three tasks, each with its rank and reason
suggest_tasks(ts, strategy, weights, today_) ==
    IF ~(valid_weights(weights) /\ \A i \in 1..Len(ts) : valid_task(ts[i]))
    THEN [status |-> 400, suggestions |-> <<>>, total_analyzed |-> 0,
          strategy_used |-> strategy]
    ELSE LET task_dicts == assign_ids(ts)
             results == [i \in 1..Len(ts) |->
                            calculate_score(strategy, task_dicts[i], task_dicts,
                                            weights, today_)]
             scored_tasks == sort_by_score(
                                 [i \in 1..Len(ts) |->
                                     scored_task(task_dicts[i], results[i])],
                                 1, <<>>)
             top_3 == take_top(scored_tasks)
         IN IF \E i \in 1..Len(ts) : results[i].raised
            THEN [status |-> 500, suggestions |-> <<>>, total_analyzed |-> 0,
                  strategy_used |-> strategy]
            ELSE [status |-> 200,
                  suggestions |->
                      [rank \in 1..Len(top_3) |->
                          [rank |-> rank, task |-> top_3[rank],
                           score |-> top_3[rank].score,
                           reason |-> generate_detailed_reason(top_3[rank],
                                                               rank)]],
                  total_analyzed |-> Len(scored_tasks),
                  strategy_used |-> strategy]

\* the request tasks: <<due date relative to today, hours, importance>>
TaskProfiles == {<<-4, 1, 7>>, <<1, 3, 5>>, <<11, 9, 3>>}

\* the k-th task of a request, titled by its position as the tests title
\* theirs; the tasks behind the first three vary in their profile only
RequestTasks(k, today_) ==
    {[id |-> i, title |-> k, due_date |-> today_ + p[1],
      estimated_hours |-> p[2], importance |-> p[3], dependencies |-> d] :
        i \in IF k <= TopN THEN {None, 1} ELSE {None},
        p \in TaskProfiles,
        d \in IF k <= TopN THEN {<<>>, <<1>>} ELSE {<<>>}}

\* the weights a request may carry: none, a valid vector, a vector summing to
\* 2.0, a partial vector, a vector summing to 0.98, a valid vector with a
\* fifth key
WeightChoices ==
    {NoWeights,
     [present |-> TRUE,
      map |-> [urgency |-> 10, importance |-> 70, effort |-> 10,
               dependencies |-> 10]],
     [present |-> TRUE,
      map |-> [urgency |-> 50, importance |-> 50, effort |-> 50,
               dependencies |-> 50]],
     [present |-> TRUE, map |-> [urgency |-> 50, importance |-> 50]],
     [present |-> TRUE,
      map |-> [urgency |-> 38, importance |-> 30, effort |-> 20,
               dependencies |-> 10]],
     [present |-> TRUE,
      map |-> [urgency |-> 40, importance |-> 30, effort |-> 20,
               dependencies |-> 10, extra |-> 0]]}

\* the analysis runs on a Friday, 2025-11-28
InitAnalyze ==
    /\ req_tasks = <<>> /\ run_date = Day0 + 4 /\ resp = <<>> /\ apc = "input"
    /\ strategy_name = "smart_balance" /\ custom_weights = NoWeights
    /\ suggestions = <<>> /\ spc = "input"
    /\ DateIdle /\ CycleIdle /\ ScoreIdle /\ FactoryIdle

\* the client puts one more task into the request body
AddRequestTask ==
    /\ apc = "input" /\ Len(req_tasks) < MaxBatch
    /\ \E t \in RequestTasks(Len(req_tasks) + 1, run_date) :
        req_tasks' = Append(req_tasks, t)
    /\ UNCHANGED <<run_date, resp, apc, strategy_name, custom_weights,
                   suggestions, spc>>
    /\ UNCHANGED <<dateVars, cycleVars, scoreVars, factoryVars>>

\* POST /api/tasks/analyze/
Analyze ==
    /\ apc = "input"
    /\ \E strategy \in Strategies, weights \in WeightChoices :
        /\ strategy_name' = strategy
        /\ custom_weights' = weights
        /\ resp' = analyze_tasks(req_tasks, strategy, weights, run_date)
    /\ apc' = "responded"
    /\ UNCHANGED <<req_tasks, run_date, suggestions, spc>>
    /\ UNCHANGED <<dateVars, cycleVars, scoreVars, factoryVars>>

\* POST /api/tasks/suggest/ with the body that was sent to analyze
Suggest ==
    /\ apc = "responded" /\ spc = "input"
    /\ suggestions' = suggest_tasks(req_tasks, strategy_name, custom_weights,
                                    run_date)
    /\ spc' = "responded"
    /\ UNCHANGED <<req_tasks, run_date, resp, apc, strategy_name,
                   custom_weights>>
    /\ UNCHANGED <<dateVars, cycleVars, scoreVars, factoryVars>>

NextAnalyze == AddRequestTask \/ Analyze \/ Suggest

SpecAnalyze == InitAnalyze /\ [][NextAnalyze]_vars

\* ------------------------------------------------------------ SpecValidate
\* the k-th task of a request body that may fail validation: a valid task due
\* tomorrow, and the same task with 0 hours, importance 0, importance 11, or
\* without title, due_date, estimated_hours or importance
CheckedTasks(k, today_) ==
    LET good == [id |-> None, title |-> k, due_date |-> today_ + 1,
                 estimated_hours |-> 3, importance |-> 5,
                 dependencies |-> <<>>]
    IN {good,
        [good EXCEPT !.estimated_hours = 0],
        [good EXCEPT !.importance = 0],
        [good EXCEPT !.importance = 11],
        [good EXCEPT !.title = None],
        [good EXCEPT !.due_date = None],
        [good EXCEPT !.estimated_hours = None],
        [good EXCEPT !.importance = None]}

\* the client puts one more task, valid or not, into the request body
AddCheckedTask ==
    /\ apc = "input" /\ Len(req_tasks) < MaxTasks
    /\ \E t \in CheckedTasks(Len(req_tasks) + 1, run_date) :
        req_tasks' = Append(req_tasks, t)
    /\ UNCHANGED <<run_date, resp, apc, strategy_name, custom_weights,
                   suggestions, spc>>
    /\ UNCHANGED <<dateVars, cycleVars, scoreVars, factoryVars>>

NextValidate == AddCheckedTask \/ Analyze \/ Suggest

SpecValidate == InitAnalyze /\ [][NextValidate]_vars

\* --------------------------------------------------------------- SpecScore
\* date.today() of the scorer calls: Friday 2025-11-28
ScoreDay == Day0 + 4

\* <<due date relative to today, hours, importance>>; the first is the task
\* due today with 2 hours and importance 5
ScoreProfiles ==
    {<<0, 2, 5>>, <<-1, 1, 8>>, <<3, 4, 2>>, <<5, 5, 10>>, <<0, 8, 1>>,
     <<12, 9, 5>>}

\* the weights argument: None, {}, a valid vector, a valid vector without
\* weight on the dependencies, four keys summing to 2.0, four keys summing to
\* 0.98, two keys summing to 1.0, two keys summing to 0.8
ScoreWeights ==
    {NoWeights,
     [present |-> TRUE, map |-> <<>>],
     [present |-> TRUE,
      map |-> [urgency |-> 10, importance |-> 70, effort |-> 10,
               dependencies |-> 10]],
     [present |-> TRUE,
      map |-> [urgency |-> 40, importance |-> 30, effort |-> 30,
               dependencies |-> 0]],
     [present |-> TRUE,
      map |-> [urgency |-> 50, importance |-> 50, effort |-> 50,
               dependencies |-> 50]],
     [present |-> TRUE,
      map |-> [urgency |-> 38, importance |-> 30, effort |-> 20,
               dependencies |-> 10]],
     [present |-> TRUE, map |-> [urgency |-> 50, importance |-> 50]],
     [present |-> TRUE, map |-> [urgency |-> 50, importance |-> 30]]}

InitScore ==
    /\ profile \in ScoreProfiles
    /\ batch = <<>> /\ all_tasks_arg = <<>> /\ weights_arg = NoWeights
    /\ scores = <<>> /\ default_scores = <<>> /\ bpc = "build"
    /\ DateIdle /\ CycleIdle /\ AnalyzeIdle /\ FactoryIdle

\* the caller puts one more task of the profile into the batch; its id is its
\* position, its dependencies are ids of the batch
AddBatchTask ==
    /\ bpc = "build" /\ Len(batch) < MaxTasks
    /\ \E d \in SeqsUpTo(1..MaxTasks, MaxDeps) :
        batch' = Append(batch,
                        [id |-> Len(batch) + 1, title |-> Len(batch) + 1,
                         due_date |-> ScoreDay + profile[1],
                         estimated_hours |-> profile[2],
                         importance |-> profile[3], dependencies |-> d])
    /\ UNCHANGED <<profile, all_tasks_arg, weights_arg, scores,
                   default_scores, bpc>>
    /\ UNCHANGED <<dateVars, cycleVars, analyzeVars, factoryVars>>

\* SmartBalanceScorer().calculate_score(task, all_tasks, weights) for every
\* task of the batch, and the same calls with weights=None
ScoreBatch ==
    /\ bpc = "build" /\ batch # <<>>
    /\ \E weights \in ScoreWeights, all_tasks \in {batch, <<>>} :
        /\ weights_arg' = weights
        /\ all_tasks_arg' = all_tasks
        /\ scores' = [i \in 1..Len(batch) |->
                        smart_balance_score(batch[i], all_tasks, weights,
                                            ScoreDay)]
        /\ default_scores' = [i \in 1..Len(batch) |->
                                smart_balance_score(batch[i], all_tasks,
                                                    NoWeights, ScoreDay)]
    /\ bpc' = "scored"
    /\ UNCHANGED <<profile, batch>>
    /\ UNCHANGED <<dateVars, cycleVars, analyzeVars, factoryVars>>

NextScore == AddBatchTask \/ ScoreBatch

SpecScore == InitScore /\ [][NextScore]_vars

\* ------------------------------------------------------------ SpecStrategy
\* date(1900, 1, 1).toordinal()
Day1900 == 693596

\* the names passed to get_scorer: the four of the table, the empty name and
\* a name the table does not hold
ScorerNames == Strategies \cup {"", "unknown"}

\* the tasks handed to the scorers, all with id 1: the task due 1900-01-01
\* with 5 hours and importance 5; one with the same hours and importance, due
\* today, that names itself as dependency; tasks whose hours and importance
\* lie outside the validated ranges (a scorer is callable without the
\* serializer); a task without due date
StrategyTasks ==
    {[id |-> 1, title |-> 1, due_date |-> Day1900, estimated_hours |-> 5,
      importance |-> 5, dependencies |-> <<>>],
     [id |-> 1, title |-> 2, due_date |-> ScoreDay, estimated_hours |-> 5,
      importance |-> 5, dependencies |-> <<1>>],
     [id |-> 1, title |-> 3, due_date |-> ScoreDay, estimated_hours |-> 25,
      importance |-> 11, dependencies |-> <<>>],
     [id |-> 1, title |-> 4, due_date |-> ScoreDay + 5, estimated_hours |-> 0,
      importance |-> 0, dependencies |-> <<>>],
     [id |-> 1, title |-> 5, due_date |-> None, estimated_hours |-> 25,
      importance |-> 0, dependencies |-> <<>>],
     [id |-> 1, title |-> 6, due_date |-> ScoreDay + 5, estimated_hours |-> 5,
      importance |-> 11, dependencies |-> <<1>>]}

\* the weights argument: None, a valid vector, four keys summing to 2.0, two
\* keys only
StrategyWeights ==
    {NoWeights,
     [present |-> TRUE,
      map |-> [urgency |-> 10, importance |-> 70, effort |-> 10,
               dependencies |-> 10]],
     [present |-> TRUE,
      map |-> [urgency |-> 50, importance |-> 50, effort |-> 50,
               dependencies |-> 50]],
     [present |-> TRUE, map |-> [urgency |-> 50, importance |-> 50]]}

\* calculate_score is called at most twice on the scorer
MaxCalls == 2

InitStrategy ==
    /\ strategy_arg \in ScorerNames /\ scorer_obj = "none"
    /\ calls_made = <<>> /\ call_results = <<>>
    /\ DateIdle /\ CycleIdle /\ AnalyzeIdle /\ ScoreIdle

\* scorer = get_scorer(strategy)
GetScorer ==
    /\ scorer_obj = "none"
    /\ scorer_obj' = get_scorer(strategy_arg)
    /\ UNCHANGED <<strategy_arg, calls_made, call_results>>
    /\ UNCHANGED <<dateVars, cycleVars, analyzeVars, scoreVars>>

\* scorer.calculate_score(task, all_tasks, weights); all_tasks is None (no
\* batch) or the list holding the task; the task due in 1900 is passed as
\* its test passes it, calculate_score(task)
CallScorer ==
    /\ scorer_obj # "none" /\ Len(calls_made) < MaxCalls
    /\ \E task \in StrategyTasks :
        \E weights \in IF task.due_date = Day1900 THEN {NoWeights}
                                                  ELSE StrategyWeights,
           all_tasks \in IF task.due_date = Day1900 THEN {<<>>}
                                                    ELSE {<<>>, <<task>>} :
            /\ calls_made' = Append(calls_made,
                                    [task |-> task, all_tasks |-> all_tasks,
                                     weights |-> weights])
            /\ call_results' = Append(call_results,
                                      score_with(scorer_obj, task, all_tasks,
                                                 weights, ScoreDay))
    /\ UNCHANGED <<strategy_arg, scorer_obj>>
    /\ UNCHANGED <<dateVars, cycleVars, analyzeVars, scoreVars>>

NextStrategy == GetScorer \/ CallScorer

SpecStrategy == InitStrategy /\ [][NextStrategy]_vars

\* --------------------------------------------------- the five parts together
Init == InitDate \/ InitCycle \/ InitAnalyze \/ InitScore \/ InitStrategy

Next ==
    NextDate \/ NextCycle \/ NextAnalyze \/ NextValidate \/ NextScore
        \/ NextStrategy

Spec == Init /\ [][Next]_vars

\* ------------------------------------------ properties of the cycle detector
\* ids carried by some task of the batch
TaskIdsOf(ts) == {ts[i].id : i \in 1..Len(ts)} \ {None}

\* the dependency edges a -> b between ids present in the batch
EdgesOf(ts) ==
    {e \in TaskIdsOf(ts) \X TaskIdsOf(ts) :
        \E i \in 1..Len(ts) :
            ts[i].id = e[1] /\ e[2] \in Range(ts[i].dependencies)}

RECURSIVE Closure(_, _, _)
Closure(E, N, k) ==
    IF k = 0 THEN E
    ELSE LET T == Closure(E, N, k - 1) IN
         T \cup {p \in N \X N :
                    \E m \in N : <<p[1], m>> \in T /\ <<m, p[2]>> \in E}

\* a -> ... -> b along one edge or more
Reach(ts) ==
    Closure(EdgesOf(ts), TaskIdsOf(ts), Cardinality(TaskIdsOf(ts)))

Acyclic(ts) == \A n \in TaskIdsOf(ts) : <<n, n>> \notin Reach(ts)

\* C2: for every batch, detect_circular_dependencies completes and returns a
\* list of cycles; it never ends in an unhandled error.
C2_NeverUnhandledError == pc # "error"

\* C3: a batch whose dependency graph (restricted to the ids present) has no
\* directed cycle yields the empty list, and the traversal raises nothing
\* (stated by contraposition: a recorded cycle or an error means the batch has
\* a directed cycle).
C3_AcyclicGivesEmpty ==
    (cycles # <<>> \/ pc = "error") => ~Acyclic(tasks)

\* an acyclic batch with a dependency between two of its tasks, traversed
C3_Witness ==
    /\ pc = "done" /\ Acyclic(tasks) /\ cycles = <<>>
    /\ EdgesOf(tasks) # {}
    /\ \E e \in EdgesOf(tasks) : e[1] # 0 /\ e[2] # 0

\* the tasks of the batch form disjoint simple cycles plus unconnected tasks:
\* ids present and pairwise distinct, each task either has no dependency and
\* no dependent, or exactly one dependency and exactly one dependent, both in
\* the batch
CyclesAndLoners(ts) ==
    /\ \A i \in 1..Len(ts) : ts[i].id # None
    /\ \A i, j \in 1..Len(ts) : ts[i].id = ts[j].id => i = j
    /\ \A i \in 1..Len(ts) :
        LET deps == ts[i].dependencies
            dependents == {j \in 1..Len(ts) :
                              ts[i].id \in Range(ts[j].dependencies)}
        IN \/ deps = <<>> /\ dependents = {}
           \/ /\ Len(deps) = 1 /\ deps[1] \in TaskIdsOf(ts)
              /\ Cardinality(dependents) = 1
              /\ \A j \in dependents : Len(ts[j].dependencies) = 1

\* one representative per cycle: the least id of the ids it reaches
CycleLeaders(ts) ==
    {n \in TaskIdsOf(ts) :
        /\ <<n, n>> \in Reach(ts)
        /\ \A m \in TaskIdsOf(ts) : <<n, m>> \in Reach(ts) => n <= m}

\* C4: a batch of k pairwise independent cycles plus unconnected tasks yields
\* at least k cycles.
C4_OnePerIndependentCycle ==
    (pc = "done" /\ CyclesAndLoners(tasks))
        => Len(cycles) >= Cardinality(CycleLeaders(tasks))

\* what the detector does deliver: one cycle per independent cycle in the
\* batches that carry no task with id 0
OnePerCycleWithoutIdZero ==
    (pc = "done" /\ CyclesAndLoners(tasks) /\ 0 \notin TaskIdsOf(tasks))
        => Len(cycles) >= Cardinality(CycleLeaders(tasks))

\* tasks that list their own id among their dependencies
SelfDependent(ts) ==
    {ts[i].id : i \in {j \in 1..Len(ts) :
        ts[j].id # None /\ ts[j].id \in Range(ts[j].dependencies)}}

\* C5: whenever a task lists its own id in its dependencies, the detector
\* returns a list that contains [id, id], wherever the task stands and
\* whatever depends on it.
C5_SelfDependencyReported ==
    \A n \in SelfDependent(tasks) :
        /\ pc # "error"
        /\ pc = "done" => <<n, n>> \in Range(cycles)

\* C6: every cycle returned has at least 2 elements, closes on itself, and
\* each consecutive pair (a, b) has b in the dependencies of the task a.
C6_CyclesWellFormed ==
    \A k \in 1..Len(cycles) :
        LET c == cycles[k] IN
        /\ Len(c) >= 2
        /\ c[1] = c[Len(c)]
        /\ \A i \in 1..(Len(c) - 1) :
            \E t \in 1..Len(tasks) :
                tasks[t].id = c[i] /\ c[i + 1] \in Range(tasks[t].dependencies)

\* a cycle through two distinct tasks has been returned
C6_Witness ==
    /\ pc = "done"
    /\ \E k \in 1..Len(cycles) : Len(cycles[k]) >= 3

\* dependency ids that match no task of the batch
Dangling(ts) ==
    UNION {Range(ts[i].dependencies) : i \in 1..Len(ts)} \ TaskIdsOf(ts)

AllDepsOf(ts) == UNION {Range(ts[i].dependencies) : i \in 1..Len(ts)}

\* C7: a dangling dependency id ends its branch without error (the traversal
\* entered at it has no neighbour to look at and can only return) and is never
\* part of a reported cycle; a batch whose only dependencies are dangling
\* yields the empty list and raises nothing.
C7_DanglingNeverInCycle ==
    /\ \A k \in 1..Len(cycles) : Range(cycles[k]) \cap Dangling(tasks) = {}
    /\ (pc = "dfs" /\ neighbors # <<>>) => top.node \notin Dangling(tasks)
    /\ (cycles # <<>> \/ pc = "error")
          => ~(AllDepsOf(tasks) \subseteq Dangling(tasks))

\* a batch whose dependencies are all dangling, traversed through one of them
C7_Witness ==
    /\ pc = "done" /\ cycles = <<>>
    /\ AllDepsOf(tasks) # {}
    /\ AllDepsOf(tasks) \subseteq Dangling(tasks)
    /\ \E d \in visited \cap Dangling(tasks) : d # 0

\* ------------------------------------------ properties of the date arithmetic
\* C8: count_business_days(a, b) = -count_business_days(b, a) for all dates,
\* and count_business_days(d, d) = 0.
C8_Antisymmetric ==
    /\ (days_fwd # <<>> /\ days_bwd # <<>>) => days_fwd[1] = -days_bwd[1]
    /\ (days_fwd # <<>> /\ start_date = end_date) => days_fwd[1] = 0

\* both directions computed between two dates with business days in between
C8_Witness ==
    /\ days_fwd # <<>> /\ days_bwd # <<>>
    /\ start_date < end_date
    /\ days_fwd[1] > 0 /\ days_bwd[1] < 0

\* Monday-to-Friday dates d with lo < d <= hi
WeekdaysAfter(lo, hi) == {d \in (lo + 1)..hi : weekday(d) < 5}

\* C9: for start < end, count_business_days(start, end) is the number of
\* Monday-to-Friday dates d with start < d <= end, also when start or end
\* falls on a Saturday or Sunday.
C9_CountsStartExclusiveEndInclusive ==
    (days_fwd # <<>> /\ start_date < end_date)
        => days_fwd[1] = Cardinality(WeekdaysAfter(start_date, end_date))

\* C10: whenever the due date is strictly before today,
\* count_business_days(today, due) is strictly negative and the task is scored
\* as overdue (urgency 100, deadline score 150 + |days|), never as due today.
C10_PastDueIsOverdue ==
    /\ (days_fwd # <<>> /\ end_date < start_date) => days_fwd[1] < 0
    /\ (dpc = "scored" /\ due_date # None /\ due_date < today)
        => /\ urgency[1] = 100
           /\ urgency[2][1] = "OVERDUE by"
           /\ deadline[1] = 150 + abs(count_business_days(today, due_date))
           /\ deadline[2][1] = "Overdue by"

\* ------------------------------------------ properties of the scorers
\* the urgency the specification gives to d business days until the due date
UrgencyOf(d) ==
    IF d < 0 THEN 100
    ELSE IF d = 0 THEN 90
    ELSE IF d = 1 THEN 80
    ELSE IF d \in 2..3 THEN 50
    ELSE IF d \in 4..5 THEN 30
    ELSE IF d \in 6..10 THEN 15
    ELSE 5

\* C11: SmartBalance urgency is a function of d = count_business_days(today,
\* due_date) only: a missing due date gives 0, d < 0 gives 100, d = 0 gives
\* 90, d = 1 gives 80, d in 2..3 gives 50, d in 4..5 gives 30, d in 6..10 gives
\* 15 and d > 10 gives 5 (today is start_date, the due date end_date, d the
\* count computed between them).
C11_UrgencyByBusinessDays ==
    dpc = "scored" =>
        /\ due_date = None => urgency[1] = 0
        /\ (due_date # None /\ days_fwd # <<>>)
              => urgency[1] = UrgencyOf(days_fwd[1])

\* a task scored more than 10 business days ahead of a due date that is more
\* calendar days away than business days
C11_Witness ==
    /\ dpc = "scored" /\ due_date # None /\ days_fwd # <<>>
    /\ days_fwd[1] > 10 /\ days_fwd[1] < due_date - today
    /\ urgency[1] = 5

\* the DeadlineDriven score the specification gives to d business days until
\* the due date
DeadlineOf(d) ==
    IF d < 0 THEN 150 - d
    ELSE IF d = 0 THEN 120
    ELSE IF d \in 1..5 THEN 100 - 10 * d
    ELSE IF d < 30 THEN 30 - d
    ELSE 0

\* C17: the DeadlineDriven score is a function of d = count_business_days(
\* today, due_date): a missing due date gives 0, d < 0 gives 150 + |d| (10
\* business days overdue gives 160), d = 0 gives 120, d in 1..5 gives
\* 100 - 10 d, d > 5 gives max(0, 30 - d); the score is never negative.
C17_DeadlineByBusinessDays ==
    dpc = "scored" =>
        /\ deadline[1] >= 0
        /\ due_date = None => deadline[1] = 0
        /\ (due_date # None /\ days_fwd # <<>>)
              => /\ deadline[1] = DeadlineOf(days_fwd[1])
                 /\ days_fwd[1] = -10 => deadline[1] = 160

\* a task scored 10 business days after its due date
C17_Witness ==
    /\ dpc = "scored" /\ due_date # None /\ days_fwd # <<>>
    /\ days_fwd[1] = -10 /\ deadline[1] = 160

\* a task scored more than 30 business days ahead of its due date
DeadlineFloorReached ==
    /\ dpc = "scored" /\ due_date # None /\ days_fwd # <<>>
    /\ days_fwd[1] > 30 /\ deadline[1] = 0

\* the effort score the specification gives to a number of hours
EffortOf(hours) ==
    IF hours < 2 THEN 20
    ELSE IF hours \in 2..4 THEN 10
    ELSE IF hours \in 5..8 THEN 0
    ELSE -10

\* 100 * (0.40 u + 0.30 i + 0.20 e + 0.10 d) for the task t of the batch ts
DefaultWeightedSum(t, ts) ==
    40 * UrgencyOf(count_business_days(ScoreDay, t.due_date))
    + 30 * (10 * t.importance)
    + 20 * EffortOf(t.estimated_hours)
    + 10 * calculate_dependencies(t, ts)[1]

\* C12: with default weights and a non-empty batch, the SmartBalance score of
\* every task is 0.40 urgency + 0.30 importance score + 0.20 effort score +
\* 0.10 dependency score, the effort score being 20 below 2 hours, 10 for 2..4,
\* 0 for 5..8 and -10 above 8; a task due today with importance 5, 2 hours and
\* no dependency, which nothing depends on, scores 53.
C12_DefaultWeightedSum ==
    (bpc = "scored" /\ all_tasks_arg # <<>>) =>
        \A i \in 1..Len(batch) :
            /\ ~default_scores[i].raised
            /\ default_scores[i].score
                   = DefaultWeightedSum(batch[i], all_tasks_arg)
            /\ ( /\ batch[i].due_date = ScoreDay
                 /\ batch[i].importance = 5
                 /\ batch[i].estimated_hours = 2
                 /\ batch[i].dependencies = <<>>
                 /\ \A j \in 1..Len(batch) :
                        batch[i].id \notin Range(batch[j].dependencies) )
                => default_scores[i].score = 5300

\* the task that scores 53, in a batch with a task that scores otherwise
C12_Witness ==
    /\ bpc = "scored" /\ all_tasks_arg # <<>> /\ Len(batch) = 2
    /\ profile = <<0, 2, 5>>
    /\ \E i, j \in 1..Len(batch) :
        /\ default_scores[i].score = 5300
        /\ default_scores[j].score # 5300

\* a weights dict that lacks one of the four keys
Partial(weights) == weights.present /\ ~(WeightKeys \subseteq DOMAIN weights.map)

\* C13: when the weights given to SmartBalance lack any of the four keys,
\* whatever their sum, the scorer raises nothing and returns the score and
\* explanation it returns with no weights.
C13_PartialWeightsFallBack ==
    (bpc = "scored" /\ Partial(weights_arg)) =>
        \A i \in 1..Len(batch) :
            ~scores[i].raised /\ scores[i] = default_scores[i]

\* what the scorer does deliver: the fallback for the partial vectors whose
\* sum is more than 0.01 off 1.0 (the empty dict among them)
MisSummedPartialFallsBack ==
    ( /\ bpc = "scored" /\ Partial(weights_arg)
      /\ abs(sum_values(weights_arg.map, DOMAIN weights_arg.map) - 100) > 1 )
        => \A i \in 1..Len(batch) :
              ~scores[i].raised /\ scores[i] = default_scores[i]

\* the sum of the four supplied weights, in hundredths
WeightSum(weights) == sum_values(weights.map, WeightKeys)

\* 100 * the sum of sub-score times supplied weight for the task t; without
\* all_tasks the scorer leaves the dependency factor out
SuppliedWeightedSum(t, ts, w) ==
    w.urgency * calculate_urgency(t.due_date, ScoreDay)[1]
    + w.importance * calculate_importance(t)[1]
    + w.effort * calculate_effort(t)[1]
    + (IF ts = <<>> THEN 0
       ELSE w.dependencies * calculate_dependencies(t, ts)[1])

OtherBlockers(i) ==
    Cardinality({j \in 1..Len(batch) :
                    j # i /\ batch[i].id \in Range(batch[j].dependencies)})

\* the dependency score inside the default score of task i: what is left of
\* the score once urgency, importance and effort are taken out, over 0.10
DependencyScoreIn(i) ==
    (default_scores[i].score
        - (40 * calculate_urgency(batch[i].due_date, ScoreDay)[1]
           + 30 * calculate_importance(batch[i])[1]
           + 20 * calculate_effort(batch[i])[1])) \div 10

SelfDependentIn(i) == batch[i].id \in Range(batch[i].dependencies)

\* C15: the blocker count of a task counts only the other tasks of the batch
\* that list its id: the count shown in the explanation is the number of such
\* tasks, and a task that lists its own id, with no other task referencing
\* it, has the dependency score -20 (waiting), not +15.
C15_SelfIsNoBlocker ==
    (bpc = "scored" /\ all_tasks_arg # <<>>) =>
        \A i \in 1..Len(batch) :
            LET explanation == default_scores[i].explanation IN
            /\ (Len(explanation) = 4 /\ explanation[4][1] = "Blocks")
                  => explanation[4][2] = OtherBlockers(i)
            /\ (SelfDependentIn(i) /\ OtherBlockers(i) = 0)
                  => /\ DependencyScoreIn(i) = -20
                     /\ explanation[4][1] = "Waiting on"

\* the dependency factor of every task of the batch as specified, b being the
\* number of other tasks that list the task, and the order it implies between
\* a blocking and a waiting task of the same profile
DependencyFactorAsSpecified ==
    /\ \A i \in 1..Len(batch) :
        LET b == OtherBlockers(i)
            dependencies == batch[i].dependencies
        IN /\ b > 0 => DependencyScoreIn(i) = 15 * b
           /\ (b = 0 /\ dependencies # <<>>) => DependencyScoreIn(i) = -20
           /\ (b = 0 /\ dependencies = <<>>)
                 => /\ DependencyScoreIn(i) = 0
                    /\ Len(default_scores[i].explanation) = 3
    /\ \A i, j \in 1..Len(batch) :
        ( /\ OtherBlockers(i) > 0
          /\ OtherBlockers(j) = 0 /\ batch[j].dependencies # <<>> )
            => default_scores[i].score > default_scores[j].score

\* C16: SmartBalance's dependency factor for a task with b blockers is 15 b if
\* b > 0, even when the task has dependencies itself; -20 if b = 0 and it has a
\* dependency; exactly 0, with no dependency fragment in the explanation, if
\* b = 0 and it has none. Hence of two tasks equal in due date, hours and
\* importance, the one that blocks another scores strictly higher than the
\* one that is waiting.
C16_DependencyFactor ==
    (bpc = "scored" /\ all_tasks_arg # <<>>) => DependencyFactorAsSpecified

\* what the scorer does deliver: the factor as specified in the batches in
\* which no task lists its own id
DependencyFactorWithoutSelfDependency ==
    ( /\ bpc = "scored" /\ all_tasks_arg # <<>>
      /\ \A i \in 1..Len(batch) : ~SelfDependentIn(i) )
        => DependencyFactorAsSpecified

\* ------------------------------------------ properties of the analysis
\* C1: the task list returned by analyze is in non-increasing score order,
\* and tasks of equal score keep the relative order of the input batch (the
\* k-th input task is the one titled k).
C1_SortedDescendingStable ==
    (apc = "responded" /\ resp.status = 200) =>
        \A i, j \in 1..Len(resp.tasks) :
            i < j =>
                /\ resp.tasks[i].score >= resp.tasks[j].score
                /\ resp.tasks[i].score = resp.tasks[j].score
                      => resp.tasks[i].title < resp.tasks[j].title

\* a response in which the sort moved a task forward and kept a tie in place
C1_Witness ==
    /\ apc = "responded" /\ resp.status = 200 /\ Len(resp.tasks) = 3
    /\ \E i \in 1..2 : resp.tasks[i].title > resp.tasks[i + 1].title
    /\ \E i \in 1..2 : resp.tasks[i].score = resp.tasks[i + 1].score

\* the tier of a scored task follows from its score as specified
TierFromScore(t) ==
    /\ t.priority_level = "HIGH" <=> t.score >= 7000
    /\ t.priority_level = "MEDIUM" <=> (t.score >= 3000 /\ t.score < 7000)
    /\ t.priority_level = "LOW" <=> t.score < 3000

\* C18: priority_level is derived from the score alone, the same way for
\* every strategy and in both endpoints: HIGH exactly when score >= 70,
\* MEDIUM exactly when 30 <= score < 70, LOW exactly when score < 30.
C18_PriorityTiers ==
    /\ (apc = "responded" /\ resp.status = 200) =>
          \A i \in 1..Len(resp.tasks) : TierFromScore(resp.tasks[i])
    /\ (spc = "responded" /\ suggestions.status = 200) =>
          \A i \in 1..Len(suggestions.suggestions) :
              TierFromScore(suggestions.suggestions[i].task)

\* a response with a task scored exactly 70 and a task scored exactly 30
C18_Witness ==
    /\ apc = "responded" /\ resp.status = 200
    /\ \E i, j \in 1..Len(resp.tasks) :
        /\ resp.tasks[i].score = 7000 /\ resp.tasks[i].priority_level = "HIGH"
        /\ resp.tasks[j].score = 3000
        /\ resp.tasks[j].priority_level = "MEDIUM"

\* the request passes TaskAnalysisRequestSerializer
RequestValid ==
    /\ valid_weights(custom_weights)
    /\ \A k \in 1..Len(req_tasks) : valid_task(req_tasks[k])

\* C19: analyze returns exactly one scored task per input task: total_tasks
\* is the batch size, every input task (the k-th is the one titled k) appears
\* exactly once with its title, due_date, estimated_hours, importance and
\* dependencies unchanged, and an empty batch yields an empty task list
\* rather than an error.
C19_OneScoredTaskPerInput ==
    (apc = "responded" /\ RequestValid) =>
        /\ resp.status = 200
        /\ resp.total_tasks = Len(req_tasks)
        /\ Len(resp.tasks) = Len(req_tasks)
        /\ req_tasks = <<>> => resp.tasks = <<>>
        /\ \A k \in 1..Len(req_tasks) :
            /\ Cardinality({i \in 1..Len(resp.tasks) :
                                resp.tasks[i].title = k}) = 1
            /\ \A i \in 1..Len(resp.tasks) :
                resp.tasks[i].title = k =>
                    /\ resp.tasks[i].due_date = req_tasks[k].due_date
                    /\ resp.tasks[i].estimated_hours
                          = req_tasks[k].estimated_hours
                    /\ resp.tasks[i].importance = req_tasks[k].importance
                    /\ resp.tasks[i].dependencies = req_tasks[k].dependencies

\* a batch with dependencies and a missing id came back in another order
C19_Witness ==
    /\ apc = "responded" /\ resp.status = 200 /\ Len(req_tasks) >= 3
    /\ \E i \in 1..Len(resp.tasks) : resp.tasks[i].title # i
    /\ \E k \in 1..Len(req_tasks) :
        req_tasks[k].id = None /\ req_tasks[k].dependencies # <<>>

\* the recommendation that ends the reason of rank r
RecommendationOf(r) ==
    IF r = 1 THEN "Start with this task immediately"
    ELSE IF r = 2 THEN "Work on this after completing the top task"
    ELSE "Plan to complete this task today if possible"

\* C20: for a batch of n tasks, suggest returns exactly min(3, n) suggestions
\* with ranks 1..min(3, n) in order; the suggestion of rank r carries the r-th
\* task of the analyze ordering for the same input and that task's score; its
\* reason ends with the text of its rank; n < 3 (0 included) is never an
\* error.
C20_SuggestTopThree ==
    (spc = "responded" /\ RequestValid) =>
        LET n == Len(req_tasks)
            s == suggestions.suggestions
        IN /\ suggestions.status = 200
           /\ Len(s) = min(3, n)
           /\ suggestions.total_analyzed = n
           /\ \A r \in 1..Len(s) :
               /\ s[r].rank = r
               /\ s[r].task = resp.tasks[r]
               /\ s[r].score = resp.tasks[r].score
               /\ s[r].reason[Len(s[r].reason)] = RecommendationOf(r)

\* four tasks were analyzed and the fourth of the ordering was left out
C20_Witness ==
    /\ spc = "responded" /\ suggestions.status = 200
    /\ Len(req_tasks) = 4 /\ Len(resp.tasks) = 4
    /\ Len(suggestions.suggestions) = 3
    /\ suggestions.suggestions[3].task.title # 3

\* the ids the client supplied are pairwise distinct
ExplicitIdsDistinct(ts) ==
    \A i, j \in 1..Len(ts) :
        (i # j /\ ts[i].id # None /\ ts[j].id # None) => ts[i].id # ts[j].id

\* C21: after the id assignment (index + 1 for each task without an id,
\* explicit ids kept) every task of the batch has an id, and the ids are
\* pairwise distinct whenever the supplied ids were: a positional id never
\* collides with the explicit id of another task.
C21_IdsDistinctAfterAssignment ==
    (apc = "responded" /\ resp.status = 200 /\ ExplicitIdsDistinct(req_tasks))
        => /\ \A i \in 1..Len(resp.tasks) : resp.tasks[i].id # None
           /\ \A i, j \in 1..Len(resp.tasks) :
                 i # j => resp.tasks[i].id # resp.tasks[j].id

\* what the assignment does deliver: every task has an id, and a task that
\* came without one carries its position
EveryTaskHasAnId ==
    (apc = "responded" /\ resp.status = 200) =>
        \A i \in 1..Len(resp.tasks) :
            LET t == resp.tasks[i] IN
            /\ t.id # None
            /\ req_tasks[t.title].id = None => t.id = t.title
            /\ req_tasks[t.title].id # None => t.id = req_tasks[t.title].id

\* the strategies whose calculate_score reads its weights argument
WeightedStrategies == {"smart_balance"}

\* C22: the custom_weights_applied flag of the analyze response is true
\* exactly when the supplied weights were used to compute the scores: false
\* without weights, and false for fastest_wins, high_impact and
\* deadline_driven, which ignore weights.
C22_FlagMeansWeightsUsed ==
    (apc = "responded" /\ resp.status = 200) =>
        (resp.custom_weights_applied <=>
            (custom_weights.present /\ strategy_name \in WeightedStrategies))

\* what the flag does say: weights came with the request
FlagMeansWeightsSupplied ==
    (apc = "responded" /\ resp.status = 200) =>
        (resp.custom_weights_applied <=> custom_weights.present)

\* ------------------------------------------ properties of the scorer factory

\* C23: get_scorer returns the SmartBalance strategy for 'smart_balance' and
\* for every name that is not one of the four canonical names, the empty
\* name included, and the FastestWins, HighImpact and DeadlineDriven
\* strategies for 'fastest_wins', 'high_impact' and 'deadline_driven'.
C23_GetScorerMapping ==
    scorer_obj # "none" =>
        /\ strategy_arg = "fastest_wins" => scorer_obj = "FastestWinsScorer"
        /\ strategy_arg = "high_impact" => scorer_obj = "HighImpactScorer"
        /\ strategy_arg = "deadline_driven"
                => scorer_obj = "DeadlineDrivenScorer"
        /\ strategy_arg \notin {"fastest_wins", "high_impact",
                                "deadline_driven"}
                => scorer_obj = "SmartBalanceScorer"

\* get_scorer was called with a name outside the table, and the scorer it
\* returned has scored a task
C23_Witness ==
    /\ strategy_arg \notin Strategies
    /\ scorer_obj = "SmartBalanceScorer"
    /\ Len(call_results) > 0

\* ------------------------------------- properties of the request validation

\* a task the serializer is specified to refuse: hours below 1, importance
\* outside 1..10, or a required field missing
BadTask(t) ==
    \/ t.title = None \/ t.due_date = None
    \/ t.estimated_hours = None \/ t.importance = None
    \/ t.estimated_hours < 1
    \/ t.importance < 1 \/ t.importance > 10

\* weights the serializer is specified to refuse: not exactly the four
\* keys, or a sum further than 0.01 from 1.0
BadWeights(w) ==
    w.present /\ (DOMAIN w.map # WeightKeys \/ abs(WeightSum(w) - 100) > 1)

\* C24: the analyze request is rejected as a whole, with an error response
\* and no task scored, whenever a task of the batch has estimated_hours < 1,
\* importance outside 1..10 or a missing required field, or the weights do
\* not have exactly the four keys or sum further than 0.01 from 1.0; one
\* invalid task leaves the valid tasks of the batch unscored too.
C24_InvalidRequestRejectedWhole ==
    (/\ apc = "responded"
     /\ \/ \E k \in 1..Len(req_tasks) : BadTask(req_tasks[k])
        \/ BadWeights(custom_weights))
        => /\ resp.status = 400
           /\ resp.tasks = <<>>
           /\ resp.total_tasks = 0

\* a request with valid weights, a valid task and an invalid one was refused
C24_Witness ==
    /\ apc = "responded"
    /\ ~BadWeights(custom_weights)
    /\ \E k \in 1..Len(req_tasks) : ~BadTask(req_tasks[k])
    /\ \E k \in 1..Len(req_tasks) : BadTask(req_tasks[k])
    /\ resp.status = 400 /\ resp.tasks = <<>>

\* the i-th call is SmartBalance's calculate_score(task) on the task due
\* 1900-01-01: default weights, no batch
LongOverdueCall(i) ==
    /\ scorer_obj = "SmartBalanceScorer"
    /\ calls_made[i].task.due_date = Day1900
    /\ calls_made[i].task.estimated_hours = 5
    /\ calls_made[i].task.importance = 5
    /\ calls_made[i].task.dependencies = <<>>
    /\ ~calls_made[i].weights.present
    /\ calls_made[i].all_tasks = <<>>

\* C25: SmartBalance with default weights and no batch gives the task that is
\* overdue by many years (due 1900-01-01, 5 hours, importance 5, no
\* dependencies) a score greater than 100, and its explanation contains
\* OVERDUE.
C25_LongOverdueAbove100 ==
    \A i \in 1..Len(calls_made) :
        LongOverdueCall(i) =>
            /\ ~call_results[i].raised
            /\ call_results[i].score > 100 * 100
            /\ call_results[i].explanation[1][1] = "OVERDUE by"

\* what the scorer returns for it: 100 * 0.40 + 50 * 0.30 + 0 * 0.20, with
\* the overdue explanation
LongOverdueScores55 ==
    \A i \in 1..Len(calls_made) :
        LongOverdueCall(i) =>
            /\ ~call_results[i].raised
            /\ call_results[i].score = 55 * 100
            /\ call_results[i].explanation[1][1] = "OVERDUE by"
            /\ call_results[i].explanation[1][2] > 260 * 100

\* ----------------------------- properties of the cycle detector's traversal

\* the only task with id 0 lists 0 among its dependencies
ZeroDependsOnItself(ts) ==
    \E i \in 1..Len(ts) :
        /\ ts[i].id = 0 /\ 0 \in Range(ts[i].dependencies)
        /\ \A j \in 1..Len(ts) : j # i => ts[j].id # 0

\* C26: every task that carries an integer id, id 0 included, is a node of
\* the dependency graph built by detect_circular_dependencies, only tasks
\* without id are skipped; in particular a cycle through the task with id 0
\* (task 0 depending on itself) is reported.
C26_IdZeroIsANode ==
    /\ pc \in {"loop", "dfs", "done", "error"}
            => DOMAIN graph = TaskIdsOf(tasks)
    /\ (pc = "done" /\ ZeroDependsOnItself(tasks))
            => \E k \in 1..Len(cycles) : 0 \in Range(cycles[k])

\* what the graph does hold: the ids that are neither None nor 0
GraphHoldsTruthyIds ==
    pc \in {"loop", "dfs", "done", "error"}
        => DOMAIN graph = TaskIdsOf(tasks) \ {0}

\* C27: in every state of the traversal the recursion stack is exactly the
\* set of nodes on the current DFS path; this also holds after a cycle has
\* been recorded, when the next top-level traversal starts with an empty
\* path.
C27_RecStackIsCurrentPath ==
    pc = "dfs" => rec_stack = Range(path)

\* what holds of the recursion stack: it contains the current path, and it
\* is the current path as long as no cycle has been recorded
RecStackHoldsCurrentPath ==
    pc = "dfs" =>
        /\ Range(path) \subseteq rec_stack
        /\ cycles = <<>> => rec_stack = Range(path)

\* the distinct ids of the batch and of its dependency lists
AllIds(ts) == TaskIdsOf(ts) \cup AllDepsOf(ts)

\* the steps the traversal still has before it: for every node not yet
\* entered its entry and one step per neighbour and its return, for every
\* frame on the stack its neighbours not yet looked at and its return, two
\* for every key the top-level loop has not passed, one for the loop's end;
\* nothing once the call has ended
StepsLeft ==
    IF pc \notin {"loop", "dfs"} THEN 0
    ELSE Cardinality(UNION {{<<n, i>> :
                                i \in 1..(Len(graph_get(graph, n)) + 2)} :
                            n \in AllIds(tasks) \ visited})
         + Cardinality(UNION {{<<k, i>> :
                                i \in frames[k].ix ..
                                    (Len(graph_get(graph, frames[k].node))
                                        + 1)} :
                              k \in 1..Len(frames)})
         + 2 * (Len(keys) + 1 - key_ix)
         + 1

\* dfs is entered: the stack of frames grows
DfsEntered == Len(frames') > Len(frames)

\* a step of the traversal uses up one of the steps left; dfs enters a node
\* only if it is not in visited, and marks it; nothing else marks a node
TraversalStep ==
    pc \in {"loop", "dfs"} =>
        /\ StepsLeft' < StepsLeft /\ StepsLeft' >= 0
        /\ DfsEntered =>
              LET node == frames'[Len(frames')].node IN
              /\ node \notin visited
              /\ visited' = visited \cup {node}
        /\ ~DfsEntered => visited' = visited
        /\ visited' \subseteq AllIds(tasks)

\* C28: the traversal always reaches its end on a finite batch, cyclic or
\* not: every step of it uses up one of finitely many steps left, the
\* depth-first search enters a node only if it is not in visited and marks
\* it, and so the entries number at most the distinct ids of the batch and
\* its dependency lists.
C28_TraversalEnds == [][TraversalStep]_vars

\* the traversal of a batch with a cycle has ended, every id entered
C28_Witness ==
    /\ pc = "done" /\ ~Acyclic(tasks)
    /\ cycles # <<>>
    /\ Cardinality(visited) > 1

\* ------------------------------- properties of the single-factor strategies

\* C29: the FastestWins result depends only on the task's estimated_hours
\* (score = max(0, 100 - 5 * max(1, hours))), the HighImpact result only on
\* its importance (score = 10 * clamp(importance, 1, 10)) and the
\* DeadlineDriven result only on its due date and today: two calls that
\* differ only in the batch passed as all_tasks, in the weights (valid,
\* invalid or partial) or in the task's other fields return the same score
\* and explanation, and none raises.
C29_SingleFactorStrategies ==
    \A i, j \in 1..Len(calls_made) :
        LET ti == calls_made[i].task
            tj == calls_made[j].task
            ri == call_results[i]
            rj == call_results[j]
        IN /\ scorer_obj = "FastestWinsScorer" =>
                /\ ~ri.raised
                /\ ri.score = 100 * max(0, 100 - 5 * max(1, ti.estimated_hours))
                /\ ti.estimated_hours = tj.estimated_hours => ri = rj
           /\ scorer_obj = "HighImpactScorer" =>
                /\ ~ri.raised
                /\ ri.score = 100 * (10 * max(1, min(10, ti.importance)))
                /\ ti.importance = tj.importance => ri = rj
           /\ scorer_obj = "DeadlineDrivenScorer" =>
                /\ ~ri.raised
                /\ ti.due_date = tj.due_date => ri = rj

\* the calls i and j differ in batch, weights and the fields other than f
\* of the task, one of them carrying partial weights
DifferButFor(i, j, f) ==
    /\ calls_made[i].task[f] = calls_made[j].task[f]
    /\ calls_made[i].task.title # calls_made[j].task.title
    /\ calls_made[i].task.dependencies # calls_made[j].task.dependencies
    /\ calls_made[i].all_tasks # calls_made[j].all_tasks
    /\ calls_made[i].weights # calls_made[j].weights
    /\ calls_made[i].weights.present
    /\ DOMAIN calls_made[i].weights.map # WeightKeys

\* a FastestWins scorer has scored two tasks of equal hours that differ in
\* importance, due date, dependencies, batch and weights, with equal results
C29_Witness ==
    /\ scorer_obj = "FastestWinsScorer" /\ Len(calls_made) = 2
    /\ DifferButFor(1, 2, "estimated_hours")
    /\ calls_made[1].task.importance # calls_made[2].task.importance
    /\ calls_made[1].task.due_date # calls_made[2].task.due_date
    /\ call_results[1] = call_results[2]

\* the same for HighImpact on equal importance and for DeadlineDriven on
\* equal due dates
SingleFactorCasesReached ==
    \/ /\ scorer_obj = "HighImpactScorer" /\ Len(calls_made) = 2
       /\ DifferButFor(1, 2, "importance")
       /\ calls_made[1].task.estimated_hours
            # calls_made[2].task.estimated_hours
    \/ /\ scorer_obj = "DeadlineDrivenScorer" /\ Len(calls_made) = 2
       /\ DifferButFor(1, 2, "due_date")
       /\ calls_made[1].task.importance # calls_made[2].task.importance

\* ----------------------------------------- properties of a later due date

\* the task is scored again, on the same today, with a later due date: the
\* business-day count does not fall, neither score rises, and an equal count
\* gives equal scores
LaterDueStep ==
    (/\ dpc \in {"scored", "rescored"} /\ dpc' = "rescored"
     /\ today' = today
     /\ due_date # None /\ due_date' # None /\ due_date' > due_date)
        => /\ urgency'[1] <= urgency[1]
           /\ deadline'[1] <= deadline[1]
           /\ days_fwd # <<>> =>
                /\ days_fwd'[1] >= days_fwd[1]
                /\ days_fwd'[1] = days_fwd[1] =>
                      urgency' = urgency /\ deadline' = deadline

\* C30: for a fixed today and all else equal, a later due date never yields
\* a higher score: count_business_days(today, due) is non-decreasing in due,
\* and both the SmartBalance urgency sub-score and the DeadlineDriven score
\* are non-increasing in that count, over negative, zero and positive
\* counts.
C30_LaterDueNeverScoresHigher == [][LaterDueStep]_vars

\* a task has been postponed to a day after today and scored again, below
\* the scores of a task due today
C30_Witness ==
    /\ dpc = "rescored" /\ due_date > today
    /\ days_fwd # <<>> /\ days_fwd[1] > 0
    /\ urgency[1] < 90 /\ deadline[1] < 120

====
